---- MODULE Spec2Model ----
(***************************************************************************)
(* PlaywrightSession (stow/shared/skills/_utils/playwright_session.py):    *)
(* the request/response correlation between caller threads running         *)
(* _send_request, the stdout reader thread running _read_stdout, and the   *)
(* child process behind the pipes.                                         *)
(*                                                                         *)
(* The session object has no lock.  Every access to self.msg_id and to     *)
(* self.pending_responses is therefore a step of its own, and the steps of *)
(* different threads interleave freely.  Steps that touch only locals of   *)
(* one thread are folded into the neighbouring step.                       *)
(***************************************************************************)
EXTENDS Integers, Sequences, FiniteSets, TLC

\* Total number of _send_request calls made on the session (handshake included).
MaxCalls == 2

\* Total number of lines _read_stdout reads from the child's stdout.
MaxLines == 2

\* Total number of stop() calls made on the session.
MaxStops == 2

\* The caller threads: "main" constructs the session and calls start(),
\* "worker" is any other thread holding the session.
Threads == {"main", "worker"}

\* Values of the `timeout` argument of _send_request, in clock ticks: every
\* caller in the file leaves it at its default.
Timeouts == {2}

\* Kinds of reply payload: a result with content, or an error member.
Bodies == {"text", "error"}

\* Largest number of segments in the content list of a reply.
MaxSegs == 2

\* Texts of text segments.
Texts == {"a", "b"}

\* Number of times the clock of the leaderboard lookup is moved.
MaxAdvances == 2

\* Model names: what the leaderboard shows and what an override is set to.
Models == {"m1", "m2"}

VARIABLES
    process,            \* self.process: "none" (None) or "popen"
    childAlive,         \* the child process is running (its pipe ends are open)
    running,            \* self.running
    msg_id,             \* self.msg_id
    pending_responses,  \* self.pending_responses: id -> the thread whose Queue it holds
    linesRead,          \* number of lines _read_stdout has read from the child
    pumpPc,             \* position of _read_stdout
    pumpMsg,            \* its local `msg`
    pumpRef,            \* the queue object it fetched from the table
    pumpErr,            \* the exception that ended it, if any
    pc,                 \* position of each caller thread
    method,             \* `method` of the thread's current call
    timeout,            \* `timeout` of the thread's current call
    local_id,           \* local `msg_id` of the thread's current call
    tmp,                \* value read by `self.msg_id += 1` before it is written back
    queue,              \* contents of the thread's current response_queue
    elapsed,            \* ticks since the thread entered response_queue.get
    response,           \* what response_queue.get returned
    outcome,            \* how the thread's last _send_request call ended
    calls,              \* number of _send_request calls made so far
    maxAlloc,           \* largest id any call has taken at line 131 so far
    hostExit,           \* sys.exit(1) was called by start()
    skipped,            \* the line just read was skipped at lines 96-97 or 102-103
    stops,              \* number of stop() calls made so far
    sigterm,            \* number of SIGTERM signals sent to the child
    sigkill,            \* number of SIGKILL signals sent to the child
    closedMsgs,         \* number of times "Browser closed." was printed
    \* the last call of a facade method (navigate ... screenshot)
    op,                 \* the method called
    name,               \* the `name` argument of screenshot
    result,             \* what call_tool returned, or the exception it raised
    returned,           \* the value the method returned
    raised,             \* the exception that left the method
    written,            \* the files the method wrote
    \* the leaderboard lookup of vision_api.py
    clock,              \* time.time()
    advances,           \* number of times the clock was moved
    lmarena_cache,      \* content of the file LMARENA_CACHE
    config_file,        \* "vision_model_override" in the file CONFIG_FILE
    top,                \* what the last get_lmarena_top_vision_model returned
    scraped             \* that call ran scrape_lmarena_vision_top

coreVars == <<process, childAlive, running, msg_id, pending_responses, linesRead,
              pumpPc, pumpMsg, pumpRef, pumpErr, skipped, pc, method, timeout,
              local_id, tmp, queue, elapsed, response, outcome, calls, maxAlloc,
              hostExit, stops, sigterm, sigkill, closedMsgs>>

facadeVars == <<op, name, result, returned, raised, written>>
visionVars == <<clock, advances, lmarena_cache, config_file, top, scraped>>

\* What a step of the session leaves alone.
outsideVars == <<facadeVars, visionVars>>

vars == <<coreVars, facadeVars, visionVars>>

sessionVars == <<process, childAlive, running, linesRead, hostExit>>
pumpVars == <<pumpPc, pumpMsg, pumpRef, pumpErr, skipped>>
stopVars == <<stops, sigterm, sigkill, closedMsgs>>

----------------------------------------------------------------------------
\* Lines on the child's stdout.

Line(k, i, b) == [kind |-> k, id |-> i, body |-> b]

NoMsg == Line("none", 0, "none")
NoRef == "none"

\* "empty":     a blank or whitespace-only line
\* "garbage":   text json.loads rejects with JSONDecodeError
\* "nonobject": well-formed JSON that is no object and does not support
\*              `"id" in msg` (a number, true, false, null)
\* "noid":      an object without an "id" member
\* "badid":     an object whose "id" is unhashable (a list or an object)
\* "reply":     an object with an integer "id" and a result or an error
ReplyLines == {Line("reply", i, b) : i \in 1..MaxCalls, b \in Bodies}

ChildLines ==
    {Line(k, 0, "none") : k \in {"empty", "garbage", "nonobject", "noid", "badid"}}
        \cup ReplyLines

----------------------------------------------------------------------------
\* The table self.pending_responses as a function on the ids it holds.

DictSet(d, k, v) == [x \in DOMAIN d \cup {k} |-> IF x = k THEN v ELSE d[x]]

DictDel(d, k) == [x \in DOMAIN d \ {k} |-> d[x]]

----------------------------------------------------------------------------
\* What call_tool (lines 153-155) hands to a facade method: the reply object
\* _send_request returned, or the exception it raised.

\* One item of result["content"].  The data of an image item is base64 text:
\* "png1" and "png2" decode to two different images, "badpadding" is text
\* base64.b64decode rejects with binascii.Error.
Segment(ty, v) == [type |-> ty, value |-> v]

Segments ==
    {Segment("text", x) : x \in Texts}
        \cup {Segment("image", d) : d \in {"png1", "png2", "badpadding"}}
        \cup {Segment("resource", "none")}

Contents == UNION {[1..n -> Segments] : n \in 0..MaxSegs}

\* A reply object: its "error" member ("absent" when it has none), whether it
\* has a "result" member and that member a "content" list, and the list.
Reply(e, r, c) == [exc |-> "none", error |-> e, result |-> r, content |-> c]

\* _send_request raised: RuntimeError (line 143) or TimeoutError (line 151).
Raise(x) == [exc |-> x, error |-> "absent", result |-> "absent", content |-> << >>]

NoResult == Raise("none")

Replies ==
    {Reply(e, r, << >>) : e \in {"absent", "E"}, r \in {"absent", "nocontent"}}
        \cup {Reply(e, "content", c) : e \in {"absent", "E"}, c \in Contents}

CallResults == Replies \cup {Raise("RuntimeError"), Raise("TimeoutError")}

\* The `name` argument of screenshot: None (or ""), a relative file name or
\* an absolute path, with or without the suffix ".png".
Name(k, st, su) == [kind |-> k, stem |-> st, suffix |-> su]

NoName == Name("none", "", "")

Names ==
    {NoName} \cup {Name(k, "shot", su) : k \in {"relative", "absolute"},
                                          su \in {"", ".png"}}

\* A path: whether it lies under self.output_dir, and its file name.
Path(d, st, su) == [dir |-> d, stem |-> st, suffix |-> su]

NoPath == Path("none", "", "")

\* What a facade method returns: a string of one of four makes, or the string
\* of a path.
Value(k, t, f) == [kind |-> k, text |-> t, path |-> f]

NoValue == Value("none", "", NoPath)

\* The vision model cache file: absent, or the JSON object of lines 177-181.
NoCache == [timestamp |-> -1, model |-> "none", source |-> "none"]

----------------------------------------------------------------------------
Init ==
    /\ process = "none"
    /\ childAlive = FALSE
    /\ running = FALSE
    /\ msg_id = 1
    /\ pending_responses = << >>
    /\ linesRead = 0
    /\ pumpPc = "off"
    /\ pumpMsg = NoMsg
    /\ pumpRef = NoRef
    /\ pumpErr = "none"
    /\ pc = [t \in Threads |-> IF t = "main" THEN "new" ELSE "idle"]
    /\ method = [t \in Threads |-> "none"]
    /\ timeout = [t \in Threads |-> 0]
    /\ local_id = [t \in Threads |-> 0]
    /\ tmp = [t \in Threads |-> 0]
    /\ queue = [t \in Threads |-> << >>]
    /\ elapsed = [t \in Threads |-> 0]
    /\ response = [t \in Threads |-> NoMsg]
    /\ outcome = [t \in Threads |-> "none"]
    /\ calls = 0
    /\ maxAlloc = 0
    /\ hostExit = FALSE
    /\ skipped = FALSE
    /\ stops = 0
    /\ sigterm = 0
    /\ sigkill = 0
    /\ closedMsgs = 0
    /\ op = "none"
    /\ name = NoName
    /\ result = NoResult
    /\ returned = NoValue
    /\ raised = "none"
    /\ written = {}
    /\ clock = 0
    /\ advances = 0
    /\ lmarena_cache = NoCache
    /\ config_file = "none"
    /\ top = "none"
    /\ scraped = FALSE

----------------------------------------------------------------------------
\* start(), lines 50-89 (called once, by the thread that built the session).

\* Lines 52-78: Popen succeeds; running is set and the reader threads are
\* started; _initialize then enters _send_request, whose check at line 128
\* passes because self.process was just set.
StartSpawn(t, T) ==
    /\ ~hostExit
    /\ pc[t] = "new"
    /\ calls < MaxCalls
    /\ process' = "popen"
    /\ childAlive' = TRUE
    /\ running' = TRUE
    /\ pumpPc' = "read"
    /\ pc' = [pc EXCEPT ![t] = "l131"]
    /\ method' = [method EXCEPT ![t] = "initialize"]
    /\ timeout' = [timeout EXCEPT ![t] = T]
    /\ calls' = calls + 1
    /\ UNCHANGED <<outsideVars, stopVars, msg_id, pending_responses, linesRead, pumpMsg, pumpRef,
                   pumpErr, skipped, local_id, tmp, queue, elapsed, response, outcome,
                   maxAlloc, hostExit>>

\* A start() that finds the executable missing only after line 78: the
\* session is marked running and the reader thread is started before the
\* fatal exit.
StartSpawnFailsLate(t) ==
    /\ ~hostExit
    /\ pc[t] = "new"
    /\ pc' = [pc EXCEPT ![t] = "exited"]
    /\ hostExit' = TRUE
    /\ running' = TRUE
    /\ pumpPc' = "read"
    /\ UNCHANGED <<outsideVars, stopVars, process, childAlive, msg_id, pending_responses, linesRead,
                   pumpMsg, pumpRef, pumpErr, skipped, method, timeout, local_id,
                   tmp, queue, elapsed, response, outcome, calls, maxAlloc>>

\* Lines 65, 84-86: Popen raises FileNotFoundError; start() calls sys.exit(1).
StartSpawnFails(t) ==
    /\ ~hostExit
    /\ pc[t] = "new"
    /\ pc' = [pc EXCEPT ![t] = "exited"]
    /\ hostExit' = TRUE
    /\ UNCHANGED <<outsideVars, stopVars, process, childAlive, running, msg_id, pending_responses, linesRead,
                   pumpVars, method, timeout, local_id, tmp, queue, elapsed,
                   response, outcome, calls, maxAlloc>>

\* An _initialize without the check of line 122: any reply taken from the
\* Queue counts as a successful handshake.
HandshakeOkLax(t) == outcome[t] = "ok"

\* Lines 122-123 and 80-89: _initialize raises on an error member; start()
\* returns self when nothing was raised and calls sys.exit(1) otherwise.
HandshakeOk(t) == outcome[t] = "ok" /\ response[t].body # "error"

StartReturn(t) ==
    /\ ~hostExit
    /\ pc[t] = "ret"
    /\ method[t] = "initialize"
    /\ IF HandshakeOk(t)
         THEN pc' = [pc EXCEPT ![t] = "idle"] /\ hostExit' = FALSE
         ELSE pc' = [pc EXCEPT ![t] = "exited"] /\ hostExit' = TRUE
    /\ method' = [method EXCEPT ![t] = "none"]
    /\ local_id' = [local_id EXCEPT ![t] = 0]
    /\ response' = [response EXCEPT ![t] = NoMsg]
    /\ outcome' = [outcome EXCEPT ![t] = "none"]
    /\ UNCHANGED <<outsideVars, stopVars, process, childAlive, running, msg_id, pending_responses, linesRead,
                   pumpVars, timeout, tmp, queue, elapsed, calls, maxAlloc>>

\* The reply to the initialize request has been taken from its Queue (line
\* 146 inside the call of line 114).  start() is called once, so when the
\* child has been spawned and no thread is inside _initialize, it is over.
InitializeReplied ==
    /\ process # "none"
    /\ \A t \in Threads : method[t] = "initialize" => response[t] # NoMsg

\* The handshake has succeeded: the reply has been taken and has no error
\* member (line 122).
HandshakeSucceeded ==
    /\ InitializeReplied
    /\ ~hostExit
    /\ \A t \in Threads : method[t] = "initialize" => response[t].body # "error"

----------------------------------------------------------------------------
\* _send_request, lines 125-151.

\* A _send_request without the check of line 128: the call goes on to line
\* 131 whether or not the child was ever spawned.
SendBeginUnguarded(t, T) ==
    /\ ~hostExit
    /\ pc[t] = "idle"
    /\ calls < MaxCalls
    /\ calls' = calls + 1
    /\ method' = [method EXCEPT ![t] = "tools/call"]
    /\ timeout' = [timeout EXCEPT ![t] = T]
    /\ outcome' = outcome
    /\ pc' = [pc EXCEPT ![t] = "l131"]
    /\ UNCHANGED <<outsideVars, stopVars, sessionVars, msg_id, pending_responses, pumpVars, local_id, tmp,
                   queue, elapsed, response, maxAlloc>>

\* Lines 128-129: a call by a thread other than the one inside start().
SendBegin(t, T) ==
    /\ ~hostExit
    /\ pc[t] = "idle"
    /\ calls < MaxCalls
    /\ calls' = calls + 1
    /\ method' = [method EXCEPT ![t] = "tools/call"]
    /\ timeout' = [timeout EXCEPT ![t] = T]
    /\ IF process = "none"
         THEN /\ outcome' = [outcome EXCEPT ![t] = "notstarted"]
              /\ pc' = [pc EXCEPT ![t] = "ret"]
         ELSE /\ outcome' = outcome
              /\ pc' = [pc EXCEPT ![t] = "l131"]
    /\ UNCHANGED <<outsideVars, stopVars, sessionVars, msg_id, pending_responses, pumpVars, local_id, tmp,
                   queue, elapsed, response, maxAlloc>>

\* A _send_request that holds a session-wide lock from line 131 to its
\* return: a call starts only when no other call is in progress.
ReadMsgIdLocked(t) ==
    /\ ~hostExit
    /\ pc[t] = "l131"
    /\ \A u \in Threads \ {t} :
           pc[u] \notin {"l132r", "l132w", "l140", "l142", "l146", "l147", "l150"}
    /\ local_id' = [local_id EXCEPT ![t] = msg_id]
    /\ maxAlloc' = IF msg_id > maxAlloc THEN msg_id ELSE maxAlloc
    /\ pc' = [pc EXCEPT ![t] = "l132r"]
    /\ UNCHANGED <<outsideVars, stopVars, sessionVars, msg_id, pending_responses, pumpVars,
                   method, timeout, tmp, queue, elapsed, response, outcome, calls>>

\* Line 131: msg_id = self.msg_id
ReadMsgId(t) ==
    /\ ~hostExit
    /\ pc[t] = "l131"
    /\ local_id' = [local_id EXCEPT ![t] = msg_id]
    /\ maxAlloc' = IF msg_id > maxAlloc THEN msg_id ELSE maxAlloc
    /\ pc' = [pc EXCEPT ![t] = "l132r"]
    /\ UNCHANGED <<outsideVars, stopVars, sessionVars, msg_id, pending_responses, pumpVars, method, timeout,
                   tmp, queue, elapsed, response, outcome, calls>>

\* Line 132, first half of self.msg_id += 1: load self.msg_id
IncrLoad(t) ==
    /\ ~hostExit
    /\ pc[t] = "l132r"
    /\ tmp' = [tmp EXCEPT ![t] = msg_id]
    /\ pc' = [pc EXCEPT ![t] = "l132w"]
    /\ UNCHANGED <<outsideVars, stopVars, sessionVars, msg_id, pending_responses, pumpVars, method, timeout,
                   local_id, queue, elapsed, response, outcome, calls, maxAlloc>>

\* Line 132, second half, and lines 133-139: the sum is stored back, a fresh
\* Queue is stored in the table under the id, and the request line is written
\* to self.process.stdin.  The three touch three different objects
\* (self.msg_id, the table, the pipe) and every step of another thread touches
\* at most one of them, so taking them as one step loses no interleaving.
\* stdin is line buffered (bufsize=1, text=True), so the line goes to the pipe
\* inside write(): it succeeds while the child holds the read end of the pipe
\* and raises BrokenPipeError once the child has exited.
WriteOk == childAlive

StoreRegisterWrite(t) ==
    /\ ~hostExit
    /\ pc[t] = "l132w"
    /\ msg_id' = tmp[t] + 1
    /\ tmp' = [tmp EXCEPT ![t] = 0]
    /\ queue' = [queue EXCEPT ![t] = << >>]
    /\ pending_responses' = DictSet(pending_responses, local_id[t], t)
    /\ pc' = [pc EXCEPT ![t] = IF WriteOk THEN "l140" ELSE "l142"]
    /\ UNCHANGED <<outsideVars, stopVars, sessionVars, pumpVars, method, timeout, local_id,
                   elapsed, response, outcome, calls, maxAlloc>>

\* Line 140: self.process.stdin.flush().  The line has left the buffer at line
\* 139 already, so there is nothing to write and nothing to fail; the thread
\* goes on to response_queue.get.
Flush(t) ==
    /\ ~hostExit
    /\ pc[t] = "l140"
    /\ pc' = [pc EXCEPT ![t] = "l146"]
    /\ elapsed' = [elapsed EXCEPT ![t] = 0]
    /\ UNCHANGED <<outsideVars, stopVars, sessionVars, msg_id, pending_responses, pumpVars,
                   method, timeout, local_id, tmp, queue, response, outcome,
                   calls, maxAlloc>>

\* What a call ends with when the del of its branch raises KeyError, which
\* nothing in _send_request catches: the KeyError, named after the branch.
KeyErrorIn(how) == "keyerror_" \o how

\* `del self.pending_responses[msg_id]` at lines 142, 147 and 150, followed by
\* the raise or return of that line's branch (`how`).  del raises KeyError
\* when the id is not in the table.
DeleteAndFinish(t, how) ==
    /\ IF local_id[t] \in DOMAIN pending_responses
         THEN /\ pending_responses' = DictDel(pending_responses, local_id[t])
              /\ outcome' = [outcome EXCEPT ![t] = how]
         ELSE /\ pending_responses' = pending_responses
              /\ outcome' = [outcome EXCEPT ![t] = KeyErrorIn(how)]
    /\ pc' = [pc EXCEPT ![t] = "ret"]
    /\ queue' = [queue EXCEPT ![t] = << >>]
    /\ elapsed' = [elapsed EXCEPT ![t] = 0]
    /\ timeout' = [timeout EXCEPT ![t] = 0]
    \* the call's Queue object dies with the call; a reference the reader
    \* thread still holds now points at an object nobody reads
    /\ pumpRef' = IF pumpRef = t THEN "garbage" ELSE pumpRef
    /\ UNCHANGED <<outsideVars, stopVars, skipped, sessionVars, msg_id, pumpPc, pumpMsg, pumpErr, method, local_id,
                   tmp, response, calls, maxAlloc>>

\* Lines 142-143: the write failed.
SendFailed(t) ==
    /\ ~hostExit
    /\ pc[t] = "l142"
    /\ DeleteAndFinish(t, "sendfail")

\* Line 146, response_queue.get(timeout=timeout): returns the first item as
\* soon as the queue holds one; raises queue.Empty when the queue is empty
\* and `timeout` has passed since get was entered.
TimedOut(t) == elapsed[t] >= timeout[t]

QueueGet(t) ==
    /\ ~hostExit
    /\ pc[t] = "l146"
    /\ \/ /\ queue[t] # << >>
          /\ response' = [response EXCEPT ![t] = Head(queue[t])]
          /\ queue' = [queue EXCEPT ![t] = Tail(queue[t])]
          /\ pc' = [pc EXCEPT ![t] = "l147"]
       \/ /\ queue[t] = << >>
          /\ TimedOut(t)
          /\ UNCHANGED <<response, queue>>
          /\ pc' = [pc EXCEPT ![t] = "l150"]
    /\ UNCHANGED <<outsideVars, stopVars, sessionVars, msg_id, pending_responses, pumpVars, method, timeout,
                   local_id, tmp, elapsed, outcome, calls, maxAlloc>>

\* Lines 147-148: a reply was taken.
ReturnResponse(t) ==
    /\ ~hostExit
    /\ pc[t] = "l147"
    /\ DeleteAndFinish(t, "ok")

\* Lines 149-151: queue.Empty was raised.
RaiseTimeout(t) ==
    /\ ~hostExit
    /\ pc[t] = "l150"
    /\ DeleteAndFinish(t, "timeout")

\* The call has returned or raised into a caller other than start(); the
\* call's locals are gone.
SendReturn(t) ==
    /\ ~hostExit
    /\ pc[t] = "ret"
    /\ method[t] = "tools/call"
    /\ pc' = [pc EXCEPT ![t] = "idle"]
    /\ method' = [method EXCEPT ![t] = "none"]
    /\ timeout' = [timeout EXCEPT ![t] = 0]
    /\ local_id' = [local_id EXCEPT ![t] = 0]
    /\ response' = [response EXCEPT ![t] = NoMsg]
    /\ outcome' = [outcome EXCEPT ![t] = "none"]
    /\ UNCHANGED <<outsideVars, stopVars, sessionVars, msg_id, pending_responses, pumpVars, tmp, queue,
                   elapsed, calls, maxAlloc>>

\* Time passes for every thread blocked in response_queue.get.
Waiting(t) == pc[t] = "l146" /\ elapsed[t] < timeout[t]

Tick ==
    /\ ~hostExit
    /\ \E t \in Threads : Waiting(t)
    /\ elapsed' = [t \in Threads |-> IF Waiting(t) THEN elapsed[t] + 1 ELSE elapsed[t]]
    /\ UNCHANGED <<outsideVars, stopVars, sessionVars, msg_id, pending_responses, pumpVars, pc, method,
                   timeout, local_id, tmp, queue, response, outcome, calls, maxAlloc>>

----------------------------------------------------------------------------
\* stop(), lines 221-230.

\* Lines 223-225, and 226-230 when the child has exited already.  running is
\* cleared; on a session that was never started nothing else happens.
\* Popen.terminate() polls the child first and sends SIGTERM only to a child
\* that is still running; for a child that has exited, wait() returns at once
\* and the message is printed, all without any step of another thread
\* mattering, so the call is one step.
StopBegin(t) ==
    /\ ~hostExit
    /\ pc[t] = "idle"
    /\ stops < MaxStops
    /\ stops' = stops + 1
    /\ running' = FALSE
    /\ IF process = "none"
         THEN UNCHANGED <<pc, sigterm, closedMsgs>>
         ELSE IF childAlive
                THEN /\ sigterm' = sigterm + 1
                     /\ pc' = [pc EXCEPT ![t] = "l227"]
                     /\ closedMsgs' = closedMsgs
                ELSE /\ closedMsgs' = closedMsgs + 1
                     /\ UNCHANGED <<pc, sigterm>>
    /\ UNCHANGED <<outsideVars, process, childAlive, linesRead, hostExit, sigkill, msg_id,
                   pending_responses, pumpVars, method, timeout, local_id, tmp,
                   queue, elapsed, response, outcome, calls, maxAlloc>>

\* Lines 227 and 230: the child exited within the 5 seconds; wait() returns.
StopWaitDone(t) ==
    /\ ~hostExit
    /\ pc[t] = "l227"
    /\ ~childAlive
    /\ closedMsgs' = closedMsgs + 1
    /\ pc' = [pc EXCEPT ![t] = "idle"]
    /\ UNCHANGED <<outsideVars, sessionVars, stops, sigterm, sigkill, msg_id,
                   pending_responses, pumpVars, method, timeout, local_id, tmp,
                   queue, elapsed, response, outcome, calls, maxAlloc>>

\* A stop() whose wait() has no timeout: it returns only once the child has
\* exited, and never kills.
StopWaitUnbounded(t) ==
    /\ ~hostExit
    /\ pc[t] = "l227"
    /\ ~childAlive
    /\ closedMsgs' = closedMsgs + 1
    /\ pc' = [pc EXCEPT ![t] = "idle"]
    /\ UNCHANGED <<outsideVars, sessionVars, stops, sigterm, sigkill, msg_id,
                   pending_responses, pumpVars, method, timeout, local_id, tmp,
                   queue, elapsed, response, outcome, calls, maxAlloc>>

\* Lines 227-230: the child is still running when the 5 seconds are over;
\* wait() raises TimeoutExpired and kill() sends SIGKILL, which the child
\* cannot ignore.
StopWaitExpired(t) ==
    /\ ~hostExit
    /\ pc[t] = "l227"
    /\ childAlive
    /\ sigkill' = sigkill + 1
    /\ childAlive' = FALSE
    /\ closedMsgs' = closedMsgs + 1
    /\ pc' = [pc EXCEPT ![t] = "idle"]
    /\ UNCHANGED <<outsideVars, process, running, linesRead, hostExit, stops, sigterm,
                   msg_id, pending_responses, pumpVars, method, timeout,
                   local_id, tmp, queue, elapsed, response, outcome, calls,
                   maxAlloc>>

\* The session has been started and stop() has been called on it: running
\* was set at line 74 and cleared at line 223.
Stopped == process # "none" /\ ~running

\* Any step of a stop() call.
StopStep(t) == StopBegin(t) \/ StopWaitDone(t) \/ StopWaitExpired(t)

----------------------------------------------------------------------------
\* The child process.

\* The child exits (on its own, by crashing, or on SIGTERM): its ends of the
\* pipes are closed.  What it wrote before is still in the pipe for
\* _read_stdout to read.  A child that ignores SIGTERM just goes on.
ChildExit ==
    /\ ~hostExit
    /\ childAlive
    /\ childAlive' = FALSE
    /\ UNCHANGED <<outsideVars, stopVars, process, running, linesRead, hostExit, msg_id, pending_responses,
                   pumpVars, pc, method, timeout, local_id, tmp, queue, elapsed,
                   response, outcome, calls, maxAlloc>>

----------------------------------------------------------------------------
\* _read_stdout, lines 91-103.

\* A reader whose try block has no `except json.JSONDecodeError`: a line that
\* is not JSON ends the thread.
AfterLineUncaught(line) ==
    CASE line.kind = "empty"     -> "read"
      [] line.kind = "garbage"   -> "crashed"
      [] line.kind = "nonobject" -> "crashed"
      [] line.kind = "noid"      -> "read"
      [] line.kind = "badid"     -> "crashed"
      [] OTHER                   -> "check"

\* Lines 95-100 applied to one line, up to the access to the table: where the
\* loop goes next.  "read" is the next iteration, "check" the membership test
\* in self.pending_responses, "crashed" an exception that
\* `except json.JSONDecodeError` does not catch and that ends the thread.
AfterLine(line) ==
    CASE line.kind = "empty"     -> "read"      \* lines 96-97: continue
      [] line.kind = "garbage"   -> "read"      \* lines 102-103: pass
      [] line.kind = "nonobject" -> "crashed"   \* line 100: TypeError
      [] line.kind = "noid"      -> "read"      \* line 100: "id" in msg is False
      [] line.kind = "badid"     -> "crashed"   \* line 100: TypeError (unhashable)
      [] OTHER                   -> "check"

\* Line 100, second operand: msg["id"] in self.pending_responses
InTable(id) == id \in DOMAIN pending_responses

\* Lines 94-100: the next line of the stream, whatever the child wrote there,
\* is read, stripped, parsed and tested.
PumpRead(line) ==
    /\ ~hostExit
    /\ pumpPc = "read"
    /\ linesRead < MaxLines
    /\ linesRead' = linesRead + 1
    /\ skipped' = (line.kind \in {"empty", "garbage"})
    /\ IF AfterLine(line) = "check"
         THEN IF InTable(line.id)
                THEN pumpPc' = "lookup" /\ pumpMsg' = line
                ELSE pumpPc' = "read" /\ pumpMsg' = NoMsg
         ELSE pumpPc' = AfterLine(line) /\ pumpMsg' = NoMsg
    /\ pumpErr' = IF AfterLine(line) = "crashed" THEN "TypeError" ELSE pumpErr
    /\ UNCHANGED <<outsideVars, stopVars, process, childAlive, running, hostExit, msg_id, pending_responses,
                   pumpRef, pc, method, timeout, local_id, tmp, queue, elapsed,
                   response, outcome, calls, maxAlloc>>

\* Line 94: the child has exited and the pipe is drained; the for loop ends.
PumpEof ==
    /\ ~hostExit
    /\ pumpPc = "read"
    /\ ~childAlive
    /\ pumpPc' = "closed"
    /\ UNCHANGED <<outsideVars, stopVars, sessionVars, msg_id, pending_responses, pumpMsg, pumpRef, pumpErr, skipped,
                   pc, method, timeout, local_id, tmp, queue, elapsed, response,
                   outcome, calls, maxAlloc>>

\* A reader that correlates by arrival order: whatever the id of the message,
\* it takes the Queue of the oldest pending request.
LookupQueueOldest(id) ==
    pending_responses[CHOOSE i \in DOMAIN pending_responses :
                          \A j \in DOMAIN pending_responses : i <= j]

\* Line 101, the subscription: the Queue stored under the message's id.
LookupQueue(id) == pending_responses[id]

\* Line 101: self.pending_responses[msg["id"]] raises KeyError, which ends the
\* thread, when the id has left the table since line 100.
PumpLookup ==
    /\ ~hostExit
    /\ pumpPc = "lookup"
    /\ IF InTable(pumpMsg.id)
         THEN /\ pumpRef' = LookupQueue(pumpMsg.id)
              /\ pumpPc' = "put"
              /\ UNCHANGED <<pumpMsg, pumpErr>>
         ELSE /\ pumpPc' = "crashed"
              /\ pumpErr' = "KeyError"
              /\ UNCHANGED <<pumpMsg, pumpRef>>
    /\ UNCHANGED <<outsideVars, stopVars, skipped, sessionVars, msg_id, pending_responses, pc, method, timeout,
                   local_id, tmp, queue, elapsed, response, outcome, calls, maxAlloc>>

\* Line 101, the call: .put(msg) on the Queue fetched.  A Queue whose call has
\* finished ("garbage") is read by nobody.
PumpPut ==
    /\ ~hostExit
    /\ pumpPc = "put"
    /\ IF pumpRef \in Threads
         THEN queue' = [queue EXCEPT ![pumpRef] = Append(@, pumpMsg)]
         ELSE queue' = queue
    /\ pumpPc' = "read"
    /\ pumpMsg' = NoMsg
    /\ pumpRef' = NoRef
    /\ UNCHANGED <<outsideVars, stopVars, skipped, sessionVars, msg_id, pending_responses, pumpErr, pc, method,
                   timeout, local_id, tmp, elapsed, response, outcome, calls,
                   maxAlloc>>

----------------------------------------------------------------------------
Next ==
    \/ \E t \in Threads, T \in Timeouts : StartSpawn(t, T)
    \/ \E t \in Threads : StartSpawnFails(t)
    \/ \E t \in Threads : StartReturn(t)
    \/ \E t \in Threads, T \in Timeouts : SendBegin(t, T)
    \/ \E t \in Threads : ReadMsgId(t)
    \/ \E t \in Threads : IncrLoad(t)
    \/ \E t \in Threads : StoreRegisterWrite(t)
    \/ \E t \in Threads : Flush(t)
    \/ \E t \in Threads : SendFailed(t)
    \/ \E t \in Threads : QueueGet(t)
    \/ \E t \in Threads : ReturnResponse(t)
    \/ \E t \in Threads : RaiseTimeout(t)
    \/ \E t \in Threads : SendReturn(t)
    \/ \E t \in Threads : StopBegin(t)
    \/ \E t \in Threads : StopWaitDone(t)
    \/ \E t \in Threads : StopWaitExpired(t)
    \/ Tick
    \/ ChildExit
    \/ \E line \in ChildLines : PumpRead(line)
    \/ PumpEof
    \/ PumpLookup
    \/ PumpPut

Spec == Init /\ [][Next]_vars

\* The steps of one caller thread inside start(), _send_request or stop().
ThreadStep(t) ==
    \/ StartReturn(t)
    \/ ReadMsgId(t)
    \/ IncrLoad(t)
    \/ StoreRegisterWrite(t)
    \/ Flush(t)
    \/ StopWaitDone(t)
    \/ StopWaitExpired(t)
    \/ SendFailed(t)
    \/ QueueGet(t)
    \/ ReturnResponse(t)
    \/ RaiseTimeout(t)
    \/ SendReturn(t)

\* The steps of the reader thread that need no input from the child.
PumpStep == PumpLookup \/ PumpPut \/ PumpEof

\* Every started thread keeps being scheduled and time keeps passing; the
\* callers need not call and the child need not write.
FairSpec ==
    /\ Spec
    /\ WF_vars(Tick)
    /\ WF_vars(PumpStep)
    /\ \A t \in Threads : WF_vars(ThreadStep(t))

----------------------------------------------------------------------------
\* The facade methods, lines 157-219.  Each calls call_tool, which returns
\* the reply object of _send_request or lets its exception through.

\* Line 218: "\n".join(texts), with the separator left out.
RECURSIVE JoinPlain(_)
JoinPlain(texts) ==
    IF texts = << >> THEN ""
    ELSE Head(texts) \o JoinPlain(Tail(texts))

\* Line 218: "\n".join(texts)
RECURSIVE JoinLines(_)
JoinLines(texts) ==
    IF texts = << >> THEN ""
    ELSE IF Len(texts) = 1 THEN Head(texts)
    ELSE Head(texts) \o "\n" \o JoinLines(Tail(texts))

\* Lines 214-217: the texts of the items of type "text", in order.
TextsOf(content) ==
    LET items == SelectSeq(content, LAMBDA item : item.type = "text")
    IN  [i \in 1..Len(items) |-> items[i].value]

\* _extract_text, lines 209-219.
extract_text(r) ==
    IF r.error # "absent"
      THEN Value("error_string", "Error: " \o r.error, NoPath)
    ELSE IF r.result = "content"
      THEN Value("texts", JoinLines(TextsOf(r.content)), NoPath)
    ELSE Value("json_dump", "", NoPath)

\* navigate, snapshot, click, type_text, evaluate and resize (lines 157-177
\* and 199-207) are all `return self._extract_text(self.call_tool(...))`.
TextOps == {"navigate", "snapshot", "click", "type_text", "evaluate", "resize"}

\* What a call returns depends on its arguments and its reply only, so one
\* call per behaviour is looked at.
TextCall(o, r) ==
    /\ op = "none"
    /\ op' = o
    /\ name' = NoName
    /\ result' = r
    /\ written' = {}
    /\ IF r.exc # "none"
         THEN raised' = r.exc /\ returned' = NoValue
         ELSE raised' = "none" /\ returned' = extract_text(r)
    /\ UNCHANGED <<coreVars, visionVars>>

\* Lines 182-183: without a name the file is named after the time of day.
DefaultName == Name("relative", "timestamp", "")

\* Lines 184-185: ".png" is appended to a name that does not end in it.
WithPng(n) == IF n.suffix = ".png" THEN n ELSE [n EXCEPT !.suffix = ".png"]

\* Line 186: self.output_dir / name.  Joining an absolute path to a directory
\* gives the absolute path.
filepath(n) ==
    Path(IF n.kind = "absolute" THEN "elsewhere" ELSE "output_dir",
         n.stem, n.suffix)

\* Lines 190-192: the index of the first item of type "image", 0 without one.
FirstImage(content) ==
    IF \E i \in 1..Len(content) : content[i].type = "image"
      THEN CHOOSE i \in 1..Len(content) :
               /\ content[i].type = "image"
               /\ \A j \in 1..(i - 1) : content[j].type # "image"
      ELSE 0

\* Line 193: base64.b64decode raises binascii.Error on wrong padding.
Decodes(data) == data # "badpadding"

\* screenshot, lines 179-197.  The "error" member of the reply is not looked
\* at.
screenshot(n, r) ==
    LET given == IF n.kind = "none" THEN DefaultName ELSE n
        file  == filepath(WithPng(given))
        first == FirstImage(r.content)
    IN  /\ op = "none"
        /\ op' = "screenshot"
        /\ name' = n
        /\ result' = r
        /\ IF r.exc # "none"
             THEN /\ raised' = r.exc
                  /\ returned' = NoValue
                  /\ written' = {}
           ELSE IF r.result = "content" /\ first # 0
             THEN IF Decodes(r.content[first].value)
                    THEN /\ written' = {[path |-> file,
                                         data |-> r.content[first].value]}
                         /\ returned' = Value("path", "", file)
                         /\ raised' = "none"
                    ELSE /\ written' = {}
                         /\ returned' = NoValue
                         /\ raised' = "binascii.Error"
           ELSE /\ written' = {}
                /\ returned' = Value("failure_string", "Screenshot failed", NoPath)
                /\ raised' = "none"
        /\ UNCHANGED <<coreVars, visionVars>>

FacadeNext ==
    \/ \E o \in TextOps, r \in CallResults : TextCall(o, r)
    \/ \E n \in Names, r \in CallResults : screenshot(n, r)

\* Facade calls on replies and failures of every shape.
FacadeSpec == Init /\ [][FacadeNext]_vars

----------------------------------------------------------------------------
\* The leaderboard lookup: get_lmarena_top_vision_model (_utils/vision_api.py,
\* lines 152-185) and set_model_override (image-as-design/scripts/
\* vision_api.py, lines 24-37).

CACHE_TTL == 86400

\* What scrape_lmarena_vision_top returns: a model name, or None.
ScrapeResults == Models \cup {"none"}

\* Lines 156-159: the cache file exists and is younger than CACHE_TTL.
CacheFresh ==
    /\ lmarena_cache # NoCache
    /\ clock - lmarena_cache.timestamp < CACHE_TTL

\* get_lmarena_top_vision_model(CONFIG_FILE); `found` is what the leaderboard
\* page would give if it were scraped now.
get_lmarena_top_vision_model(found) ==
    /\ IF CacheFresh
         THEN /\ top' = lmarena_cache.model                      \* line 160
              /\ scraped' = FALSE
              /\ lmarena_cache' = lmarena_cache
         ELSE IF config_file # "none"
           THEN /\ top' = config_file                            \* line 169
                /\ scraped' = FALSE
                /\ lmarena_cache' = lmarena_cache
           ELSE /\ top' = found                                  \* lines 173-185
                /\ scraped' = TRUE
                /\ lmarena_cache' =
                       IF found # "none"
                         THEN [timestamp |-> clock, model |-> found,
                               source |-> "lmarena_scrape"]
                         ELSE lmarena_cache
    /\ UNCHANGED <<clock, advances, config_file, coreVars, facadeVars>>

\* set_model_override(m): the override is stored in CONFIG_FILE.
set_model_override(m) ==
    /\ config_file' = m
    /\ UNCHANGED <<clock, advances, lmarena_cache, top, scraped, coreVars,
                   facadeVars>>

\* clear_cache, lines 396-401: the cache file is removed if it exists.
clear_cache ==
    /\ lmarena_cache # NoCache
    /\ lmarena_cache' = NoCache
    /\ UNCHANGED <<clock, advances, config_file, top, scraped, coreVars,
                   facadeVars>>

\* Time passes: a second, or a whole CACHE_TTL.
Advance(d) ==
    /\ advances < MaxAdvances
    /\ advances' = advances + 1
    /\ clock' = clock + d
    /\ UNCHANGED <<lmarena_cache, config_file, top, scraped, coreVars,
                   facadeVars>>

VisionNext ==
    \/ \E found \in ScrapeResults : get_lmarena_top_vision_model(found)
    \/ \E m \in Models : set_model_override(m)
    \/ clear_cache
    \/ \E d \in {1, CACHE_TTL} : Advance(d)

\* Lookups, overrides and cache removals at any times.
VisionSpec == Init /\ [][VisionNext]_vars

----------------------------------------------------------------------------
\* Positions of a caller between the registration of its entry (line 134)
\* and the del that ends its call (lines 142, 147, 150).
InFlight == {"l140", "l142", "l146", "l147", "l150"}

\* C1: every reply a caller takes from its queue, and so every reply a send
\* call returns, carries the id that call put in its own request; no caller
\* receives a reply carrying another request's id.
C1_ReplyCarriesOwnId ==
    \A t \in Threads :
        /\ response[t] # NoMsg => response[t].id = local_id[t]
        /\ \A k \in 1..Len(queue[t]) : queue[t][k].id = local_id[t]
        /\ outcome[t] = "ok" => response[t].kind = "reply" /\ response[t].id = local_id[t]

\* C1 witness: two calls with different ids are pending together and the one
\* with the larger id has returned its own reply while the other still waits.
C1_Witness ==
    \E t \in Threads, u \in Threads :
        /\ pc[t] = "ret" /\ outcome[t] = "ok"
        /\ pc[u] = "l146" /\ queue[u] = << >>
        /\ local_id[t] > local_id[u]
        /\ response[t].id = local_id[t]

\* C2: request ids are unique and increasing: whenever a call takes its id
\* at line 131, that id is strictly larger than every id taken before, so no
\* two calls ever get the same id.
C2_IdsUniqueAndIncreasing ==
    [][\A t \in Threads :
          (pc[t] = "l131" /\ pc'[t] = "l132r") => local_id'[t] > maxAlloc]_vars

\* C2, the concurrent case alone: two calls in progress never hold the same id.
C2_NoSharedId ==
    \A t \in Threads, u \in Threads :
        (t # u /\ local_id[t] # 0) => local_id[t] # local_id[u]

\* C3: when a reply for id i races with the caller of request i timing out
\* and removing its entry, the reader thread never accesses the removed entry
\* (its subscription at line 101 does not fail on id i), never holds the Queue
\* of the removed entry to put the reply into, and id i is not in the table
\* once the call has ended.
C3_NoAccessToRemovedEntry ==
    \A t \in Threads :
        (pc[t] = "ret" /\ outcome[t] = "timeout") =>
            /\ ~(pumpErr = "KeyError" /\ pumpMsg.id = local_id[t])
            /\ ~(pumpPc = "put" /\ pumpMsg.id = local_id[t])
            /\ ~InTable(local_id[t])

\* Number of put() calls made so far on the Queue of thread t's current call.
Delivered(t) == Len(queue[t]) + (IF response[t] = NoMsg THEN 0 ELSE 1)

\* C4: resolve-once: no call's result slot is ever given a second message,
\* and a message whose id is not in the table when it arrives is dropped: the
\* table, the queues and every call's reply and outcome stay as they were and
\* the reader goes on to the next line.
C4_ResolveOnceAndDrop ==
    [][/\ \A t \in Threads : Delivered(t)' <= 1
       /\ \A line \in ReplyLines :
             (PumpRead(line) /\ ~InTable(line.id)) =>
                 /\ UNCHANGED <<pending_responses, queue, response, outcome>>
                 /\ pumpPc' = "read"]_vars

\* C5: the removal of a call's entry never fails; an id is in the table only
\* while the call that registered it is between registration and completion,
\* and all that time it is there, mapped to that call's own Queue; once no call
\* is in progress the table is empty.
C5_EntryLivesWithItsCall ==
    /\ \A t \in Threads :
           outcome[t] \notin {KeyErrorIn("ok"), KeyErrorIn("timeout"),
                              KeyErrorIn("sendfail")}
    /\ \A i \in DOMAIN pending_responses :
           /\ pc[pending_responses[i]] \in InFlight
           /\ local_id[pending_responses[i]] = i
    /\ \A t \in Threads :
           pc[t] \in InFlight =>
               InTable(local_id[t]) /\ pending_responses[local_id[t]] = t
    /\ (\A t \in Threads : pc[t] \in {"new", "idle", "ret", "exited"}) =>
           pending_responses = << >>

\* C6: a reply is returned to the call it answers.  When the reader thread,
\* holding a reply that carries id i, looks up the table while the call that
\* sent request i is still waiting in response_queue.get, it finds that
\* call's own Queue; and a call waiting on a Queue that holds a reply
\* eventually returns a reply carrying its id (unless the host process exits).
C6_ReadReplyIsReturned ==
    /\ [][\A t \in Threads :
             (/\ pc[t] = "l146"
              /\ pumpPc = "lookup" /\ pumpMsg.id = local_id[t]
              /\ PumpLookup) => (pumpPc' = "put" /\ pumpRef' = t)]_vars
    /\ \A t \in Threads :
           (pc[t] = "l146" /\ queue[t] # << >>)
               ~> (\/ /\ pc[t] = "ret" /\ outcome[t] = "ok"
                      /\ response[t].id = local_id[t]
                   \/ hostExit)

\* C7: the reader thread stops only when the stream is closed: it is never
\* ended by an exception, whatever line the child writes and whenever a caller
\* removes its entry.
C7_PumpStopsOnlyAtEof ==
    /\ pumpPc # "crashed"
    /\ pumpPc = "closed" => ~childAlive

\* C8: reading a blank line or a line that is not JSON leaves the table,
\* every queue and every call's reply and outcome as they were, and the reader
\* thread is back at the head of its loop, alive, to read the next line.
C8_JunkLineIsIgnored ==
    [][\A line \in ChildLines :
          (line.kind \in {"empty", "garbage"} /\ PumpRead(line)) =>
              /\ UNCHANGED <<pending_responses, queue, response, outcome>>
              /\ pumpPc' = "read"
              /\ pumpErr' = pumpErr]_vars

\* C8 witness: the reader has just skipped a blank or non-JSON line while a
\* request is pending with nothing delivered to it, and is reading on.
C8_Witness ==
    /\ skipped
    /\ pumpPc = "read"
    /\ \E t \in Threads :
           pc[t] = "l146" /\ queue[t] = << >> /\ InTable(local_id[t])

\* C9: a call that gets no reply ends with TimeoutError and nothing else,
\* queue.Empty is raised no earlier than `timeout` ticks after the call began
\* to wait, and the call's entry is out of the table when it has ended.
C9_TimeoutAfterT ==
    \A t \in Threads :
        /\ pc[t] = "l150" => elapsed[t] >= timeout[t]
        /\ outcome[t] # KeyErrorIn("timeout")
        /\ (pc[t] = "ret" /\ outcome[t] = "timeout") => ~InTable(local_id[t])

\* C9, the liveness half: a call blocked in response_queue.get does not stay
\* there forever (unless the host process exits).
C9_NoBlockForever ==
    \A t \in Threads : (pc[t] = "l146") ~> (pc[t] # "l146" \/ hostExit)

\* C10: a call whose write failed ends with the send failure, its own entry
\* is the one removed, and every other entry of the table stays.
C10_SendFailureRemovesOwnEntry ==
    [][\A t \in Threads :
          SendFailed(t) =>
              /\ outcome'[t] = "sendfail"
              /\ InTable(local_id[t])
              /\ pending_responses[local_id[t]] = t
              /\ pending_responses' = DictDel(pending_responses, local_id[t])]_vars

\* C11: the expiry of one call's timeout touches that call alone.  The del
\* of the timeout branch removes exactly the entry its call registered, the
\* call ends with TimeoutError, every other thread's position, Queue, reply
\* and outcome stay as they were; and the removal does not end the reader
\* thread, so that the other pending requests can still get their replies.
C11_TimeoutTouchesOnlyItsCall ==
    [][\A t \in Threads :
          /\ RaiseTimeout(t) =>
                /\ InTable(local_id[t]) /\ pending_responses[local_id[t]] = t
                /\ pending_responses' = DictDel(pending_responses, local_id[t])
                /\ outcome'[t] = "timeout"
                /\ \A u \in Threads \ {t} :
                       /\ pc'[u] = pc[u] /\ queue'[u] = queue[u]
                       /\ response'[u] = response[u] /\ outcome'[u] = outcome[u]
          /\ (/\ PumpLookup
              /\ pc[t] = "ret" /\ outcome[t] = "timeout"
              /\ pumpMsg.id = local_id[t]) => pumpPc' # "crashed"]_vars

\* C12: callers never block each other.  Whatever the other threads are
\* doing, a thread inside _send_request can always take its next step: read
\* and increment the counter, register its Queue, write and flush its request,
\* take a reply that is in its Queue and return it.
C12_CallersNeverBlockEachOther ==
    \A t \in Threads :
        \/ hostExit
        \/ /\ pc[t] = "l131" => ENABLED ReadMsgId(t)
           /\ pc[t] = "l132r" => ENABLED IncrLoad(t)
           /\ pc[t] = "l132w" => ENABLED StoreRegisterWrite(t)
           /\ pc[t] = "l140" => ENABLED Flush(t)
           /\ (pc[t] = "l146" /\ queue[t] # << >>) => ENABLED QueueGet(t)
           /\ pc[t] = "l147" => ENABLED ReturnResponse(t)

\* C12 witness: a request issued later has completed with its own reply
\* while the request issued earlier is still suspended, waiting for its reply
\* for at least one tick.
C12_Witness ==
    \E t \in Threads, u \in Threads :
        /\ pc[u] = "l146" /\ queue[u] = << >> /\ elapsed[u] >= 1
        /\ InTable(local_id[u]) /\ pending_responses[local_id[u]] = u
        /\ pc[t] = "ret" /\ outcome[t] = "ok"
        /\ response[t].id = local_id[t]
        /\ local_id[t] > local_id[u]

\* C13: the writes of the callers to the child's stdin are mutually
\* exclusive: at no time are two threads both inside the write of their
\* request, that is between the start of stdin.write at line 139 and the end of
\* stdin.flush at line 140.
C13_WritesMutuallyExclusive ==
    \A t \in Threads, u \in Threads :
        (pc[t] = "l140" /\ pc[u] = "l140") => t = u

\* C14: stop() and the end of the reader thread resolve, wake and remove
\* nothing: their steps leave the table, every Queue, every call's reply and
\* outcome and the position of every call in progress as they were.  A call
\* that waits with an empty Queue on a stopped session leaves
\* response_queue.get only when its own timeout has elapsed, and then ends
\* with TimeoutError.
C14_StopLeavesPendingToTimeOut ==
    [][/\ ((\E t \in Threads : StopStep(t)) \/ PumpEof) =>
             /\ UNCHANGED <<pending_responses, queue, response, outcome, elapsed>>
             /\ \A u \in Threads : pc[u] \in InFlight => pc'[u] = pc[u]
       /\ \A t \in Threads :
             /\ (/\ Stopped /\ pc[t] = "l146" /\ queue[t] = << >>
                 /\ pc'[t] # "l146") => (TimedOut(t) /\ pc'[t] = "l150")
             /\ (Stopped /\ RaiseTimeout(t)) => outcome'[t] = "timeout"]_vars

\* C15: once the child has exited, the only failure a _send_request call
\* ends with is TimeoutError, whether the call was pending when the child
\* exited or was made afterwards: every call made on the started session
\* that has ended has returned a reply or raised TimeoutError.
C15_ChildExitSeenOnlyAsTimeout ==
    \A t \in Threads :
        (/\ process # "none" /\ ~childAlive
         /\ pc[t] = "ret" /\ outcome[t] # "notstarted") =>
            outcome[t] \in {"ok", "timeout"}

\* C16: stop() on a started session always returns, whatever requests are
\* outstanding.  It sends SIGTERM to a child that is running; a stop() that
\* waits for the child can always go on, either because the child has exited
\* or because the 5 seconds are over; SIGKILL is sent exactly in the second
\* case, to a child that is still running; and when stop() returns the child
\* is not running any more.
C16_StopAlwaysCompletes ==
    /\ [](\A t \in Threads :
             (pc[t] = "l227" /\ ~hostExit) =>
                 ENABLED (StopWaitDone(t) \/ StopWaitExpired(t)))
    /\ [][\A t \in Threads :
             /\ (StopBegin(t) /\ process # "none") =>
                   /\ sigterm' = (IF childAlive THEN sigterm + 1 ELSE sigterm)
                   /\ pc'[t] = "idle" => ~childAlive'
             /\ StopWaitDone(t) => (~childAlive /\ sigkill' = sigkill)
             /\ StopWaitExpired(t) => (childAlive /\ sigkill' = sigkill + 1)
             /\ (pc[t] = "l227" /\ pc'[t] # "l227") =>
                   (pc'[t] = "idle" /\ ~childAlive')]_vars

\* C16 witness: stop() has returned after killing a child that ignored
\* SIGTERM, while a request of another thread is still outstanding.
C16_Witness ==
    /\ Stopped /\ sigterm = 1 /\ sigkill = 1 /\ closedMsgs = 1 /\ ~childAlive
    /\ \E t \in Threads, u \in Threads :
           /\ pc[t] = "idle"
           /\ pc[u] = "l146" /\ queue[u] = << >> /\ InTable(local_id[u])

\* C17: stop() on a session that is already stopped (an earlier stop() has
\* returned) is a no-op: it changes no state of the session, sends no signal
\* to the child and prints nothing.
C17_StopIsIdempotent ==
    [][\A t \in Threads :
          (/\ StopBegin(t)
           /\ Stopped /\ \A u \in Threads : pc[u] # "l227") =>
              /\ UNCHANGED <<process, running, childAlive>>
              /\ UNCHANGED <<sigterm, sigkill>>
              /\ closedMsgs' = closedMsgs
              /\ pc' = pc]_vars

\* C18: once the session is stopped (a stop() has returned), a _send_request
\* call is rejected at once: it does not go on to take an id at line 131, and
\* leaves the counter and the table as they were.
C18_NoSendAfterStop ==
    [][\A t \in Threads, T \in Timeouts :
          (/\ SendBegin(t, T)
           /\ Stopped /\ \A u \in Threads : pc[u] # "l227") =>
              /\ pc'[t] = "ret"
              /\ outcome'[t] # "none"
              /\ UNCHANGED <<msg_id, pending_responses>>]_vars

\* C19: the session's state only moves forward: self.running is true only
\* when the handshake has succeeded, and is not true once a stop() of the
\* started session has been carried out.
C19_StateMovesForward ==
    /\ running => HandshakeSucceeded
    /\ closedMsgs > 0 => ~running

\* C20: no tools/call request is written to the child before the reply to
\* the initialize request has been received, and at most one initialize
\* request is in progress.
C20_InitializeComesFirst ==
    [][/\ \A t \in Threads :
             (StoreRegisterWrite(t) /\ method[t] = "tools/call" /\ WriteOk) =>
                 InitializeReplied
       /\ \A t \in Threads, u \in Threads :
             (method[t] = "initialize" /\ method[u] = "initialize") => t = u]_vars

\* C21: start() returns the session only when the reply to its initialize
\* request (a reply carrying that request's id) was taken from the Queue and
\* has no error member; when the reply has an error member, or the handshake
\* call ends in any other way (timeout, failed write), start() does not
\* return and the host exits with a non-zero status.
C21_StartReturnsOnlyAfterGoodHandshake ==
    [][\A t \in Threads :
          StartReturn(t) =>
              /\ pc'[t] = "idle" =>
                     /\ outcome[t] = "ok"
                     /\ response[t].kind = "reply"
                     /\ response[t].id = local_id[t]
                     /\ response[t].body # "error"
              /\ (outcome[t] # "ok" \/ response[t].body = "error") =>
                     /\ hostExit'
                     /\ pc'[t] = "exited"]_vars

\* start() has ended the host after the child was spawned: the handshake
\* failed.
C21_Witness ==
    /\ hostExit /\ process # "none"
    /\ \E t \in Threads : pc[t] = "exited" /\ calls > 0

\* C22: when the executable is not found (Popen raises FileNotFoundError),
\* start() ends the host with a non-zero status, and on that path the reader
\* thread is not started, self.running is not set, no child exists and no
\* request is registered or written.
C22_MissingExecutableIsFatal ==
    /\ [][\A t \in Threads :
             StartSpawnFails(t) =>
                 /\ hostExit' /\ pc'[t] = "exited"
                 /\ pumpPc' = "off" /\ ~running' /\ process' = "none"
                 /\ UNCHANGED <<msg_id, pending_responses, maxAlloc>>]_vars
    /\ [](process = "none" =>
             /\ pumpPc = "off" /\ ~running /\ ~childAlive
             /\ msg_id = 1 /\ pending_responses = << >> /\ maxAlloc = 0)

\* start() has ended the host without a child.
C22_Witness ==
    /\ hostExit /\ process = "none"
    /\ \E t \in Threads : pc[t] = "exited"

\* C26: a _send_request on a session whose child was never spawned ends at
\* line 129 with "Server not started": it takes no id (self.msg_id keeps its
\* value), registers no entry and writes nothing.
C26_SendOnUnstartedSessionIsRejected ==
    [][\A t \in Threads, T \in Timeouts :
          (SendBegin(t, T) /\ process = "none") =>
              /\ pc'[t] = "ret"
              /\ outcome'[t] = "notstarted"
              /\ UNCHANGED <<msg_id, pending_responses, maxAlloc, local_id>>
              /\ UNCHANGED <<process, childAlive, running>>]_vars

\* A call on the unstarted session has been rejected.
C26_Witness ==
    /\ process = "none"
    /\ \E t \in Threads : pc[t] = "ret" /\ outcome[t] = "notstarted"
    /\ msg_id = 1 /\ pending_responses = << >> /\ maxAlloc = 0

\* C27: when start() has ended the host after spawning the child, the child
\* is not left running without having been sent a termination request.
C27_FailedStartTerminatesChild ==
    (hostExit /\ process # "none" /\ childAlive) => sigterm > 0

\* C23: in every facade method a reply with an "error" member, with or
\* without a "result" member, makes the method return an error string and
\* raise nothing; an exception of _send_request (failed write, timeout)
\* leaves the method as that exception and nothing is returned.
C23_ErrorMemberBecomesString ==
    op # "none" =>
        /\ (result.exc = "none" /\ result.error # "absent") =>
               /\ raised = "none"
               /\ returned.kind \in {"error_string", "failure_string"}
        /\ result.exc # "none" =>
               /\ raised = result.exc
               /\ returned = NoValue

\* C24: screenshot writes a file exactly when the content of the reply has an
\* image item: then one file, holding the first image item, under
\* self.output_dir and with a name ending in ".png", whose path is returned;
\* without an image item no file is written and a failure string is returned.
C24_ScreenshotWritesIffImage ==
    (op = "screenshot" /\ result.exc = "none") =>
        IF result.result = "content" /\ FirstImage(result.content) # 0
          THEN /\ raised = "none"
               /\ \E f \in written :
                      /\ written = {f}
                      /\ f.data = result.content[FirstImage(result.content)].value
                      /\ f.path.dir = "output_dir"
                      /\ f.path.suffix = ".png"
                      /\ returned = Value("path", "", f.path)
          ELSE /\ written = {}
               /\ raised = "none"
               /\ returned.kind = "failure_string"

\* The texts of the text items of a content list, in order, with `sep`
\* between consecutive texts.
RECURSIVE C25_Glued(_, _)
C25_Glued(content, sep) ==
    IF content = << >> THEN ""
    ELSE LET front == SubSeq(content, 1, Len(content) - 1)
             last  == content[Len(content)]
         IN  IF last.type # "text" THEN C25_Glued(front, sep)
             ELSE IF \A i \in 1..Len(front) : front[i].type # "text"
                    THEN last.value
             ELSE C25_Glued(front, sep) \o sep \o last.value

\* The last facade call was a text-returning one and its reply had no error
\* member and a content list.
C25_TextReply ==
    /\ op \in TextOps
    /\ result.exc = "none" /\ result.error = "absent"
    /\ result.result = "content"

\* C25 (as the code has it): for a successful reply each text-returning
\* facade method returns the texts of the reply's text items in the order
\* they appear, joined by a newline between consecutive texts, with other
\* items contributing nothing; a single text item is returned as it is.
C25_TextsJoinedByNewline ==
    C25_TextReply =>
        /\ raised = "none"
        /\ returned = Value("texts", C25_Glued(result.content, "\n"), NoPath)
        /\ Len(TextsOf(result.content)) = 1 =>
               returned.text = TextsOf(result.content)[1]

\* A reply with two text items has been turned into two lines.
C25_Witness ==
    /\ C25_TextReply
    /\ result.content = <<Segment("text", "a"), Segment("text", "b")>>
    /\ returned.text = "a\nb"

\* C25 (as stated): the methods return the concatenation of the texts of the
\* text items.
C25_TextsConcatenated ==
    C25_TextReply =>
        /\ raised = "none"
        /\ returned = Value("texts", C25_Glued(result.content, ""), NoPath)

\* C28: once an override is set, the next get_lmarena_top_vision_model
\* returns it, whatever the state of the cache, without scraping; and neither
\* setting nor returning the override writes to the cache.
C28_OverrideTakesEffectAtOnce ==
    /\ [][\A found \in ScrapeResults :
             (get_lmarena_top_vision_model(found) /\ config_file # "none") =>
                 /\ top' = config_file
                 /\ ~scraped'
                 /\ lmarena_cache' = lmarena_cache]_vars
    /\ [][\A m \in Models :
             set_model_override(m) => lmarena_cache' = lmarena_cache]_vars

====
